---- MODULE Spec2Model ----
(***************************************************************************)
(* The wash sale engine of src/src/App.jsx: processTransactions, modelled  *)
(* as a state machine whose steps are the sort of the transaction array,   *)
(* one step per iteration of the FIFO loop, and the return; and the part   *)
(* of the page around it: the file load, the reference date, the tabs and  *)
(* the ticker check of TickerChecker.                                      *)
(*                                                                         *)
(* Representation.                                                         *)
(*  - A transaction date is the number of its local calendar day.          *)
(*    parseDate builds local midnights and setDate(getDate() +- n) moves   *)
(*    a local midnight by whole calendar days, so comparing two such       *)
(*    Dates compares their day numbers (time zones whose DST change        *)
(*    removes a local midnight are not modelled).                          *)
(*  - The reference date asOfDate may carry a time of day (new Date()):    *)
(*    it is a local wall-clock time in minutes, Midnight(d) for day d.     *)
(*  - The zone is tzOffset, its standard offset, and dstEnd, the days on   *)
(*    which its clocks fall back an hour at 02:00.  A difference of two    *)
(*    Dates (daysUntil) and toISOString (formatDate) read the instants.    *)
(*  - Quantities are whole shares and prices and amounts whole currency    *)
(*    units on input; the values derived from them by division (proceeds,  *)
(*    gainLoss, lossAmount, disallowedLoss) are exact rationals [n, d]     *)
(*    with d > 0.  The rounding of IEEE doubles is not modelled.           *)
(*  - An object reference (Violation.lossSale, an entry of activeWindows)  *)
(*    is the index of the object in lossSales.                             *)
(***************************************************************************)
EXTENDS Integers, Sequences, FiniteSets, TLC

VARIABLES
  input,          \* the transactions in input row order (App.jsx:109-130)
  tzOffset,       \* minutes the local zone is east of UTC
  asOfDate,       \* the reference date passed to processTransactions
  transactions,   \* the array `transactions`
  pc,             \* "sort", "loop" or "done"
  idx,            \* position of the for-of loop over transactions
  lots,           \* ticker -> queue of lots
  lossSales,
  violations,
  warnings,
  cur,            \* the locals of the latest loop iteration
  activeWindows,  \* the activeWindows of the report
  dstEnd,         \* the days on which the zone leaves daylight saving time
  ticker,         \* TickerChecker: the text of the input field
  result,         \* TickerChecker: the result on display
  activeTab       \* WashSaleTracker: the tab on display

\* pc is "idle" while the page holds no data and no run is under way, "sort"
\* and "loop" during processTransactions, and "done" once the report is
\* returned (and, on the page, set as data).
engineVars == <<input, transactions, idx, lots, lossSales, violations,
                warnings, cur, activeWindows>>

uiVars == <<dstEnd, ticker, result, activeTab>>

vars == <<input, tzOffset, asOfDate, transactions, pc, idx, lots, lossSales,
          violations, warnings, cur, activeWindows, dstEnd, ticker, result,
          activeTab>>

----------------------------------------------------------------------------
(* Bounds *)

MaxTxns == 3

\* The rows of an input with repeated dates.
MaxRepeatTxns == 4

----------------------------------------------------------------------------
(* Exact rational arithmetic for the values the code computes by division *)

Rat(n, d) == [n |-> n, d |-> d]

IntRat(i) == Rat(i, 1)

RatMul(a, b) == Rat(a.n * b.n, a.d * b.d)

RatDiv(a, b) == IF b.n > 0 THEN Rat(a.n * b.d, a.d * b.n)
                           ELSE Rat(-(a.n * b.d), -(a.d * b.n))

RatSub(a, b) == Rat(a.n * b.d - b.n * a.d, a.d * b.d)

RatAbs(a) == Rat(IF a.n < 0 THEN -a.n ELSE a.n, a.d)

RatLt(a, b) == a.n * b.d < b.n * a.d

RatEq(a, b) == a.n * b.d = b.n * a.d

RatLe(a, b) == a.n * b.d <= b.n * a.d

Min(a, b) == IF a <= b THEN a ELSE b

----------------------------------------------------------------------------
(* Dates *)

WashWindowDays == 30

SafeDays == 31

AddDays(date, n) == date + n

isInWashWindow(saleDate, checkDate) ==
  LET windowStart == AddDays(saleDate, -WashWindowDays)
      windowEnd   == AddDays(saleDate, WashWindowDays)
  IN  checkDate >= windowStart /\ checkDate <= windowEnd

getSafeDate(saleDate) == AddDays(saleDate, SafeDays)

\* The local wall-clock time, in minutes, of the local midnight of a day, and
\* the day of a time in minutes (\div floors).
Midnight(date) == date * (24 * 60)

DayOf(minutes) == minutes \div (24 * 60)

\* The offset east of UTC in force at a local wall-clock time: an hour more
\* than the standard offset until the clocks fall back at 02:00.
utcOffset(local) ==
  tzOffset + (IF \E d \in dstEnd : local < Midnight(d) + 120 THEN 60 ELSE 0)

\* The instant of a local wall-clock time, in minutes of UTC.
toUTC(local) == local - utcOffset(local)

\* toISOString().split('T')[0]: the UTC calendar day of the local midnight
\* of `date`.
formatDate(date) == DayOf(toUTC(Midnight(date)))

\* Math.ceil of the difference of the two instants over one day.
daysUntil(targetDate, fromDate) ==
  -((-(toUTC(targetDate) - toUTC(fromDate))) \div (24 * 60))

----------------------------------------------------------------------------
(* The sort of the transaction array *)

IsSell(t) == IF t.transType = "Sell" THEN 1 ELSE 0

\* Faulty variants of compareTxn: the tie between a Buy and a Sell of one
\* date left to the input order, and decided for the Sell.
compareByDateOnly(a, b) == a.date - b.date

compareSellsFirst(a, b) ==
  LET dateDiff == a.date - b.date
  IN  IF dateDiff # 0 THEN dateDiff ELSE IsSell(b) - IsSell(a)

compareTxn(a, b) ==
  LET dateDiff == a.date - b.date
  IN  IF dateDiff # 0 THEN dateDiff ELSE IsSell(a) - IsSell(b)

\* x put into the sorted s behind every element that does not sort after it
\* (Array.prototype.sort is stable).
RECURSIVE InsertTxn(_, _)
InsertTxn(s, x) ==
  IF s = <<>> THEN <<x>>
  ELSE IF compareTxn(s[Len(s)], x) <= 0 THEN Append(s, x)
  ELSE Append(InsertTxn(SubSeq(s, 1, Len(s) - 1), x), s[Len(s)])

RECURSIVE sortTransactions(_)
sortTransactions(s) ==
  IF s = <<>> THEN <<>>
  ELSE InsertTxn(sortTransactions(SubSeq(s, 1, Len(s) - 1)), s[Len(s)])

----------------------------------------------------------------------------
(* Buy: the new lot and the forward pass *)

newLot(txn) ==
  [date |-> txn.date, quantity |-> txn.quantity, price |-> txn.price,
   remaining |-> txn.quantity]

\* Faulty variant of disallowedLoss: the buy quantity not capped by the quantity sold.
disallowedLossUncapped(buyQuantity, lsQuantity, lossAmount) ==
  RatMul(RatDiv(IntRat(buyQuantity), IntRat(lsQuantity)), lossAmount)

disallowedLoss(buyQuantity, lsQuantity, lossAmount) ==
  RatMul(RatDiv(IntRat(Min(buyQuantity, lsQuantity)), IntRat(lsQuantity)),
         lossAmount)

forwardMatches(txn, ls) ==
  ls.ticker = txn.ticker /\ isInWashWindow(ls.saleDate, txn.date)

\* The violations the Buy txn adds, given the loss sales lss so far.
forwardViolationsOver(lss, txn) ==
  LET hits == SelectSeq([i \in 1..Len(lss) |-> i],
                        LAMBDA i : forwardMatches(txn, lss[i]))
  IN  [k \in 1..Len(hits) |->
         [ticker |-> txn.ticker,
          lossSale |-> hits[k],
          buyDate |-> txn.date,
          buyQuantity |-> txn.quantity,
          disallowedLoss |-> disallowedLoss(txn.quantity,
                                            lss[hits[k]].quantity,
                                            lss[hits[k]].lossAmount)]]

forwardViolations(txn) == forwardViolationsOver(lossSales, txn)

----------------------------------------------------------------------------
(* Sell: FIFO matching *)

EpsilonNum == 1

EpsilonDen == 10000

\* Faulty variant of matchLots: what is taken is added to the lot.
RECURSIVE matchLotsAdding(_, _)
matchLotsAdding(st, i) ==
  IF i > Len(st.tickerLots) THEN st
  ELSE IF st.remainingToSell <= 0 THEN st
  ELSE IF st.tickerLots[i].remaining <= 0 THEN matchLotsAdding(st, i + 1)
  ELSE LET lot  == st.tickerLots[i]
           take == Min(lot.remaining, st.remainingToSell)
       IN  matchLotsAdding(
             [tickerLots      |-> [st.tickerLots EXCEPT ![i].remaining = @ + take],
              remainingToSell |-> st.remainingToSell - take,
              totalCostBasis  |-> st.totalCostBasis + take * lot.price,
              quantitySold    |-> st.quantitySold + take],
             i + 1)

\* Faulty variant of matchLots: the whole of what is still to sell taken from
\* the lot in turn.
RECURSIVE matchLotsUnbounded(_, _)
matchLotsUnbounded(st, i) ==
  IF i > Len(st.tickerLots) THEN st
  ELSE IF st.remainingToSell <= 0 THEN st
  ELSE IF st.tickerLots[i].remaining <= 0 THEN matchLotsUnbounded(st, i + 1)
  ELSE LET lot  == st.tickerLots[i]
           take == st.remainingToSell
       IN  matchLotsUnbounded(
             [tickerLots      |-> [st.tickerLots EXCEPT ![i].remaining = @ - take],
              remainingToSell |-> st.remainingToSell - take,
              totalCostBasis  |-> st.totalCostBasis + take * lot.price,
              quantitySold    |-> st.quantitySold + take],
             i + 1)

\* The for-of loop over tickerLots, from lot i on; st holds the lots as
\* mutated so far and the three accumulators.
RECURSIVE matchLots(_, _)
matchLots(st, i) ==
  IF i > Len(st.tickerLots) THEN st
  ELSE IF st.remainingToSell <= 0 THEN st
  ELSE IF st.tickerLots[i].remaining <= 0 THEN matchLots(st, i + 1)
  ELSE LET lot  == st.tickerLots[i]
           take == Min(lot.remaining, st.remainingToSell)
       IN  matchLots(
             [tickerLots      |-> [st.tickerLots EXCEPT ![i].remaining = @ - take],
              remainingToSell |-> st.remainingToSell - take,
              totalCostBasis  |-> st.totalCostBasis + take * lot.price,
              quantitySold    |-> st.quantitySold + take],
             i + 1)

Reverse(s) == [i \in 1..Len(s) |-> s[Len(s) + 1 - i]]

\* Faulty variant of matchSell: the newest lot taken first.
matchSellNewestFirst(tickerLots, txn) ==
  LET m == matchLots([tickerLots      |-> Reverse(tickerLots),
                      remainingToSell |-> txn.quantity,
                      totalCostBasis  |-> 0,
                      quantitySold    |-> 0], 1)
  IN  [m EXCEPT !.tickerLots = Reverse(m.tickerLots)]

matchSell(tickerLots, txn) ==
  matchLots([tickerLots      |-> tickerLots,
             remainingToSell |-> txn.quantity,
             totalCostBasis  |-> 0,
             quantitySold    |-> 0], 1)

\* Faulty variant of proceedsOf: the whole amount, whatever was matched.
proceedsNotProrated(txn, quantitySold) == IntRat(txn.amount)

proceedsOf(txn, quantitySold) ==
  RatMul(IntRat(txn.amount), RatDiv(IntRat(quantitySold), IntRat(txn.quantity)))

gainLossOf(proceeds, totalCostBasis) == RatSub(proceeds, IntRat(totalCostBasis))

\* Faulty variant of isLoss: a sale with no gain counted as a loss.
isLossOrZero(gainLoss) == RatLe(gainLoss, IntRat(0))

isLoss(gainLoss) == RatLt(gainLoss, IntRat(0))

newLossSale(txn, quantitySold, proceeds, totalCostBasis, gainLoss) ==
  [ticker |-> txn.ticker,
   saleDate |-> txn.date,
   quantity |-> quantitySold,
   salePrice |-> txn.price,
   proceeds |-> proceeds,
   costBasis |-> totalCostBasis,
   lossAmount |-> RatAbs(gainLoss)]

\* Faulty variant of cleanLots: the depleted lots left in the queue.
cleanLotsKeepingAll(tickerLots) == tickerLots

cleanLots(tickerLots) ==
  SelectSeq(tickerLots, LAMBDA l : l.remaining * EpsilonDen > EpsilonNum)

----------------------------------------------------------------------------
(* Sell at a loss: the backward pass over the buys before the sale *)

\* Faulty variant of backwardMatches: a Buy of the sale date itself taken too.
backwardMatchesOnSaleDate(priorTxn, txn) ==
  /\ priorTxn.transType = "Buy"
  /\ priorTxn.ticker = txn.ticker
  /\ priorTxn.date <= txn.date
  /\ isInWashWindow(txn.date, priorTxn.date)

backwardMatches(priorTxn, txn) ==
  /\ priorTxn.transType = "Buy"
  /\ priorTxn.ticker = txn.ticker
  /\ priorTxn.date < txn.date
  /\ isInWashWindow(txn.date, priorTxn.date)

\* lss is lossSales with the new loss sale appended at index lsRef.
alreadyRecorded(viols, lss, txn, priorTxn) ==
  \E k \in 1..Len(viols) :
    /\ lss[viols[k].lossSale].saleDate = txn.date
    /\ viols[k].buyDate = priorTxn.date
    /\ viols[k].ticker = txn.ticker

\* The loop over the whole transaction array txns, from entry i on.
RECURSIVE backwardPassOver(_, _, _, _, _, _)
backwardPassOver(txns, viols, lss, lsRef, txn, i) ==
  IF i > Len(txns) THEN viols
  ELSE LET priorTxn == txns[i]
       IN  IF backwardMatches(priorTxn, txn)
              /\ ~alreadyRecorded(viols, lss, txn, priorTxn)
           THEN backwardPassOver(txns,
                  Append(viols,
                    [ticker |-> txn.ticker,
                     lossSale |-> lsRef,
                     buyDate |-> priorTxn.date,
                     buyQuantity |-> priorTxn.quantity,
                     disallowedLoss |-> disallowedLoss(priorTxn.quantity,
                                                       lss[lsRef].quantity,
                                                       lss[lsRef].lossAmount)]),
                  lss, lsRef, txn, i + 1)
           ELSE backwardPassOver(txns, viols, lss, lsRef, txn, i + 1)

backwardPass(viols, lss, lsRef, txn, i) ==
  backwardPassOver(transactions, viols, lss, lsRef, txn, i)

----------------------------------------------------------------------------
(* The state machine *)

Tickers == {"AAA", "BBB", "aaa"}

noResult == [none |-> TRUE]

noLocals == [idx |-> 0, branch |-> "none", quantitySold |-> 0,
             totalCostBasis |-> 0, proceeds |-> IntRat(0),
             gainLoss |-> IntRat(0)]

Row(date, instrument, transType, quantity, price, amount) ==
  [date |-> date, ticker |-> instrument, transType |-> transType,
   quantity |-> quantity, price |-> price, amount |-> amount]

SeqsUpTo(S, n) == UNION {[1..k -> S] : k \in 0..n}

\* The state on entry to processTransactions, for up to len rows.
InitWithUpTo(len, rows, zones, asOfs) ==
  /\ input \in SeqsUpTo(rows, len)
  /\ tzOffset \in zones
  /\ asOfDate \in asOfs
  /\ transactions = input
  /\ pc = "sort"
  /\ idx = 1
  /\ lots = [t \in Tickers |-> <<>>]
  /\ lossSales = <<>>
  /\ violations = <<>>
  /\ warnings = <<>>
  /\ cur = noLocals
  /\ activeWindows = <<>>
  /\ dstEnd = {}
  /\ ticker = ""
  /\ result = noResult
  /\ activeTab = "check"

InitWith(rows, zones, asOfs) == InitWithUpTo(MaxTxns, rows, zones, asOfs)

SortTransactions ==
  /\ pc = "sort"
  /\ transactions' = sortTransactions(transactions)
  /\ pc' = "loop"
  /\ UNCHANGED <<input, tzOffset, asOfDate, idx, lots, lossSales, violations,
                 warnings, cur, activeWindows>>
  /\ UNCHANGED uiVars

ProcessBuy ==
  /\ pc = "loop"
  /\ idx <= Len(transactions)
  /\ transactions[idx].transType = "Buy"
  /\ LET txn == transactions[idx]
     IN  /\ lots' = [lots EXCEPT ![txn.ticker] = Append(@, newLot(txn))]
         /\ violations' = violations \o forwardViolations(txn)
         /\ cur' = [noLocals EXCEPT !.idx = idx, !.branch = "buy"]
  /\ idx' = idx + 1
  /\ UNCHANGED <<input, tzOffset, asOfDate, transactions, pc, lossSales,
                 warnings, activeWindows>>
  /\ UNCHANGED uiVars

\* Faulty variant of ProcessSellNoLots: the loop left (break) on the warning.
ProcessSellNoLotsBreak ==
  /\ pc = "loop"
  /\ idx <= Len(transactions)
  /\ transactions[idx].transType = "Sell"
  /\ Len(lots[transactions[idx].ticker]) = 0
  /\ LET txn == transactions[idx]
     IN  /\ warnings' = Append(warnings,
                          [ticker |-> txn.ticker, date |-> formatDate(txn.date)])
         /\ cur' = [noLocals EXCEPT !.idx = idx, !.branch = "nolots"]
  /\ idx' = Len(transactions) + 1
  /\ UNCHANGED <<input, tzOffset, asOfDate, transactions, pc, lots, lossSales,
                 violations, activeWindows>>
  /\ UNCHANGED uiVars

ProcessSellNoLots ==
  /\ pc = "loop"
  /\ idx <= Len(transactions)
  /\ transactions[idx].transType = "Sell"
  /\ Len(lots[transactions[idx].ticker]) = 0
  /\ LET txn == transactions[idx]
     IN  /\ warnings' = Append(warnings,
                          [ticker |-> txn.ticker, date |-> formatDate(txn.date)])
         /\ cur' = [noLocals EXCEPT !.idx = idx, !.branch = "nolots"]
  /\ idx' = idx + 1
  /\ UNCHANGED <<input, tzOffset, asOfDate, transactions, pc, lots, lossSales,
                 violations, activeWindows>>
  /\ UNCHANGED uiVars

ProcessSell ==
  /\ pc = "loop"
  /\ idx <= Len(transactions)
  /\ transactions[idx].transType = "Sell"
  /\ Len(lots[transactions[idx].ticker]) # 0
  /\ LET txn      == transactions[idx]
         m        == matchSell(lots[txn.ticker], txn)
         proceeds == proceedsOf(txn, m.quantitySold)
         gainLoss == gainLossOf(proceeds, m.totalCostBasis)
         lss      == Append(lossSales,
                       newLossSale(txn, m.quantitySold, proceeds,
                                   m.totalCostBasis, gainLoss))
     IN  IF m.quantitySold = 0
         THEN /\ lots' = [lots EXCEPT ![txn.ticker] = m.tickerLots]
              /\ cur' = [noLocals EXCEPT !.idx = idx, !.branch = "nothingSold"]
              /\ UNCHANGED <<lossSales, violations>>
         ELSE /\ lots' = [lots EXCEPT ![txn.ticker] = cleanLots(m.tickerLots)]
              /\ cur' = [idx |-> idx,
                         branch |-> IF isLoss(gainLoss) THEN "loss" ELSE "gain",
                         quantitySold |-> m.quantitySold,
                         totalCostBasis |-> m.totalCostBasis,
                         proceeds |-> proceeds,
                         gainLoss |-> gainLoss]
              /\ IF isLoss(gainLoss)
                 THEN /\ lossSales' = lss
                      /\ violations' = backwardPass(violations, lss, Len(lss),
                                                    txn, 1)
                 ELSE UNCHANGED <<lossSales, violations>>
  /\ idx' = idx + 1
  /\ UNCHANGED <<input, tzOffset, asOfDate, transactions, pc, warnings,
                 activeWindows>>
  /\ UNCHANGED uiVars

\* Faulty variant of isActive: still active on the safe date itself.
isActiveOnSafeDate(ls, asOf) == Midnight(getSafeDate(ls.saleDate)) >= asOf

isActive(ls, asOf) == Midnight(getSafeDate(ls.saleDate)) > asOf

Return ==
  /\ pc = "loop"
  /\ idx > Len(transactions)
  /\ activeWindows' = SelectSeq([i \in 1..Len(lossSales) |-> i],
                                LAMBDA i : isActive(lossSales[i], asOfDate))
  /\ pc' = "done"
  /\ UNCHANGED <<input, tzOffset, asOfDate, transactions, idx, lots, lossSales,
                 violations, warnings, cur>>
  /\ UNCHANGED uiVars

Next ==
  \/ SortTransactions
  \/ ProcessBuy
  \/ ProcessSellNoLots
  \/ ProcessSell
  \/ Return

----------------------------------------------------------------------------
(* processTransactions as a function of its rows *)

\* One iteration of the loop, on entry i of the sorted array txns; st holds
\* lots, lossSales, violations and warnings as they stand before it.
loopIteration(st, txns, i) ==
  LET txn == txns[i]
  IN  IF txn.transType = "Buy"
      THEN [st EXCEPT !.lots[txn.ticker] = Append(@, newLot(txn)),
                      !.violations = @ \o forwardViolationsOver(st.lossSales, txn)]
      ELSE IF Len(st.lots[txn.ticker]) = 0
      THEN [st EXCEPT !.warnings =
              Append(@, [ticker |-> txn.ticker, date |-> formatDate(txn.date)])]
      ELSE LET m        == matchSell(st.lots[txn.ticker], txn)
               proceeds == proceedsOf(txn, m.quantitySold)
               gainLoss == gainLossOf(proceeds, m.totalCostBasis)
               lss      == Append(st.lossSales,
                             newLossSale(txn, m.quantitySold, proceeds,
                                         m.totalCostBasis, gainLoss))
           IN  IF m.quantitySold = 0
               THEN [st EXCEPT !.lots[txn.ticker] = m.tickerLots]
               ELSE IF isLoss(gainLoss)
               THEN [lots       |-> [st.lots EXCEPT
                                       ![txn.ticker] = cleanLots(m.tickerLots)],
                     lossSales  |-> lss,
                     violations |-> backwardPassOver(txns, st.violations, lss,
                                                     Len(lss), txn, 1),
                     warnings   |-> st.warnings]
               ELSE [st EXCEPT !.lots[txn.ticker] = cleanLots(m.tickerLots)]

\* The loop over the first n entries of the sorted array txns.
RECURSIVE processFirst(_, _)
processFirst(txns, n) ==
  IF n = 0
  THEN [lots |-> [t \in Tickers |-> <<>>], lossSales |-> <<>>,
        violations |-> <<>>, warnings |-> <<>>]
  ELSE loopIteration(processFirst(txns, n - 1), txns, n)

processTransactions(rows) ==
  processFirst(sortTransactions(rows), Len(rows))

----------------------------------------------------------------------------
(* Inputs *)

TzOffsets == {-300, 60}

AsOfDates == {Midnight(62)}

\* One ticker around a sale on day 31: the days 1 and 61 are the ends of its
\* wash window, the days 0 and 62 lie just outside it.
WindowDates == {0, 1, 31, 61, 62}

WindowRows ==
  {Row(d, "AAA", "Buy", q, 3, -(3 * q)) : d \in WindowDates, q \in {1, 2}}
  \cup {Row(d, "AAA", "Sell", q, 2, 2 * q) : d \in {1, 31}, q \in {1, 2}}
  \cup {Row(31, "BBB", "Buy", 1, 3, -3), Row(31, "BBB", "Sell", 1, 2, 2)}

Init == InitWith(WindowRows, TzOffsets, AsOfDates)

Spec == Init /\ [][Next]_vars

\* One ticker with lots of 5 and 10 shares bought at 5 or 7 and sells of 5
\* and 15 shares for 35 or 85: sells over one or two lots, with a gain, with
\* no gain and at a loss, filled in full or in part.
FifoRows ==
  {Row(d, "AAA", "Buy", q, p, -(p * q)) : d \in {0, 1}, q \in {5, 10}, p \in {5, 7}}
  \cup {Row(d, "AAA", "Sell", q, 6, a) : d \in {1, 2}, q \in {5, 15}, a \in {35, 85}}
  \cup {Row(1, "BBB", "Buy", 10, 5, -50), Row(1, "BBB", "Sell", 5, 6, 35)}

InitFifo == InitWith(FifoRows, {-300}, AsOfDates)

SpecFifo == InitFifo /\ [][Next]_vars

\* One ticker: one or two shares bought on day 0, sells of one or two
\* shares at a loss on day 1 and buys on day 5, any of them several times
\* over.
RepeatRows ==
  {Row(0, "AAA", "Buy", q, 3, -(3 * q)) : q \in {1, 2}}
  \cup {Row(1, "AAA", "Sell", q, 2, 2 * q) : q \in {1, 2}}
  \cup {Row(5, "AAA", "Buy", q, 3, -(3 * q)) : q \in {1, 2}}

InitRepeat == InitWithUpTo(MaxRepeatTxns, RepeatRows, {-300}, AsOfDates)

SpecRepeat == InitRepeat /\ [][Next]_vars

----------------------------------------------------------------------------
(* The page: WashSaleTracker and TickerChecker *)

\* String.prototype.toUpperCase and trim, on the strings of this model.
toUpperCase(str) ==
  CASE str = "aaa" -> "AAA"
    [] str = "aab" -> "AAB"
    [] OTHER -> str

trim(str) == IF str = " " THEN "" ELSE str

\* new Date(0), as a day number: long before the first day of the model.
epochDate == -20000

\* useMemo: the active windows of the data on display under the reference
\* date on display; React computes it anew in the render that follows a
\* change of either.
memoActiveWindows ==
  IF pc = "done"
  THEN SelectSeq([i \in 1..Len(lossSales) |-> i],
                 LAMBDA i : isActive(lossSales[i], asOfDate))
  ELSE <<>>

matchingWindows(upperTicker) ==
  SelectSeq(memoActiveWindows, LAMBDA i : lossSales[i].ticker = upperTicker)

\* The reduce over the matching windows.
RECURSIVE latestSafeOf(_, _)
latestSafeOf(windows, latest) ==
  IF windows = <<>>
  THEN latest
  ELSE LET safe == getSafeDate(lossSales[windows[1]].saleDate)
       IN  latestSafeOf(Tail(windows), IF safe > latest THEN safe ELSE latest)

\* What checkTicker passes to setResult for the upper-cased ticker.
checkResult(upperTicker) ==
  LET windows == matchingWindows(upperTicker)
  IN  IF Len(windows) = 0
      THEN [safe |-> TRUE, ticker |-> upperTicker]
      ELSE LET latestSafe == latestSafeOf(windows, epochDate)
           IN  [safe |-> FALSE, ticker |-> upperTicker, windows |-> windows,
                safeDate |-> latestSafe,
                daysUntilSafe |-> daysUntil(Midnight(latestSafe), asOfDate)]

\* handleFileLoad: the file uploader is on the page only while there is no
\* data; the content is processed under the reference date on display.
HandleFileLoad(rows) ==
  /\ pc = "idle"
  /\ input' \in SeqsUpTo(rows, MaxTxns)
  /\ transactions' = input'
  /\ pc' = "sort"
  /\ UNCHANGED <<tzOffset, asOfDate, idx, lots, lossSales, violations,
                 warnings, cur, activeWindows>>
  /\ UNCHANGED uiVars

\* handleDateChange: the date input gives the local midnight of a day; the
\* data is not processed again and TickerChecker keeps its state.
HandleDateChange(date) ==
  /\ pc \in {"idle", "done"}
  /\ asOfDate' = Midnight(date)
  /\ UNCHANGED <<tzOffset, pc>>
  /\ UNCHANGED engineVars
  /\ UNCHANGED uiVars

\* handleReset: the data is dropped, which takes TickerChecker off the page.
HandleReset ==
  /\ pc = "done"
  /\ pc' = "idle"
  /\ input' = <<>>
  /\ transactions' = <<>>
  /\ idx' = 1
  /\ lots' = [t \in Tickers |-> <<>>]
  /\ lossSales' = <<>>
  /\ violations' = <<>>
  /\ warnings' = <<>>
  /\ cur' = noLocals
  /\ activeWindows' = <<>>
  /\ ticker' = ""
  /\ result' = noResult
  /\ UNCHANGED <<tzOffset, asOfDate, dstEnd, activeTab>>

\* setActiveTab: TickerChecker is on the page under the tab "check" only, and
\* starts from its initial state whenever it is put on the page.
SetActiveTab(tab) ==
  /\ pc = "done"
  /\ activeTab' = tab
  /\ IF tab = "check" /\ activeTab = "check"
     THEN UNCHANGED <<ticker, result>>
     ELSE ticker' = "" /\ result' = noResult
  /\ UNCHANGED <<tzOffset, asOfDate, pc, dstEnd>>
  /\ UNCHANGED engineVars

\* The onChange of the ticker field.
SetTicker(text) ==
  /\ pc = "done"
  /\ activeTab = "check"
  /\ ticker' = toUpperCase(text)
  /\ UNCHANGED <<tzOffset, asOfDate, pc, dstEnd, result, activeTab>>
  /\ UNCHANGED engineVars

\* checkTicker, on Enter or on the button.
CheckTicker ==
  /\ pc = "done"
  /\ activeTab = "check"
  /\ IF trim(ticker) = ""
     THEN UNCHANGED result
     ELSE result' = checkResult(toUpperCase(trim(ticker)))
  /\ UNCHANGED <<tzOffset, asOfDate, pc, dstEnd, ticker, activeTab>>
  /\ UNCHANGED engineVars

Tabs == {"check", "windows", "history"}

\* Lots of one or two shares of AAA and of aaa bought at 3 on day 0 and sold
\* at 2 on day 1 or 31: loss sales safe from day 32 and from day 62.
PageRows ==
  {Row(0, "AAA", "Buy", 2, 3, -6), Row(1, "AAA", "Sell", 1, 2, 2),
   Row(31, "AAA", "Sell", 1, 2, 2), Row(0, "aaa", "Buy", 1, 3, -3),
   Row(31, "aaa", "Sell", 1, 2, 2)}

\* The days the date input is set to: the last day of each window and the
\* day after it.
PickDates == {31, 32, 61, 62}

\* What is typed into the ticker field.
TypedTexts == {" ", "aaa", "aab"}

\* The page opens in the afternoon of day 61, in a zone without daylight
\* saving time or in one whose clocks fall back on day 61.
InitPage ==
  /\ input = <<>>
  /\ tzOffset = -300
  /\ asOfDate = Midnight(61) + 15 * 60
  /\ transactions = <<>>
  /\ pc = "idle"
  /\ idx = 1
  /\ lots = [t \in Tickers |-> <<>>]
  /\ lossSales = <<>>
  /\ violations = <<>>
  /\ warnings = <<>>
  /\ cur = noLocals
  /\ activeWindows = <<>>
  /\ dstEnd \in {{}, {61}}
  /\ ticker = ""
  /\ result = noResult
  /\ activeTab = "check"

NextPage ==
  \/ HandleFileLoad(PageRows)
  \/ SortTransactions
  \/ ProcessBuy
  \/ ProcessSellNoLots
  \/ ProcessSell
  \/ Return
  \/ \E date \in PickDates : HandleDateChange(date)
  \/ HandleReset
  \/ \E tab \in Tabs : SetActiveTab(tab)
  \/ \E text \in TypedTexts : SetTicker(text)
  \/ CheckTicker

SpecPage == InitPage /\ [][NextPage]_vars

----------------------------------------------------------------------------
(* Notions the properties are stated in, defined apart from the engine *)

IsDone == pc = "done"

InLoop == pc = "loop" /\ idx <= Len(transactions)

Txn == transactions[idx]

IsBuyOf(t, instrument) == t.transType = "Buy" /\ t.ticker = instrument

\* The violations that reference loss sale l and carry buy date d.
ViolationsOf(l, d) ==
  {k \in 1..Len(violations) :
     violations[k].lossSale = l /\ violations[k].buyDate = d}

RECURSIVE SumSeq(_)
SumSeq(s) == IF s = <<>> THEN 0 ELSE s[1] + SumSeq(Tail(s))

TotalRemaining(tl) == SumSeq([i \in 1..Len(tl) |-> tl[i].remaining])

\* What a sell of Q shares takes from lot i of the queue tl under FIFO:
\* what the lots before it leave unfilled, up to what lot i holds.
FifoTake(tl, Q, i) ==
  LET before == TotalRemaining(SubSeq(tl, 1, i - 1))
  IN  Min(tl[i].remaining, IF Q > before THEN Q - before ELSE 0)

FifoCostBasis(tl, Q) ==
  SumSeq([i \in 1..Len(tl) |-> FifoTake(tl, Q, i) * tl[i].price])

FifoMatched(tl, Q) == SumSeq([i \in 1..Len(tl) |-> FifoTake(tl, Q, i)])

FifoLeft(tl, Q) ==
  SelectSeq([i \in 1..Len(tl) |->
               [tl[i] EXCEPT !.remaining = @ - FifoTake(tl, Q, i)]],
            LAMBDA l : l.remaining > 0)

IsMatchedSell == InLoop /\ Txn.transType = "Sell" /\ lots[Txn.ticker] # <<>>

IsSkippedSell == InLoop /\ Txn.transType = "Sell" /\ lots[Txn.ticker] = <<>>

----------------------------------------------------------------------------
(* C1: window completeness *)

\* C1: in the report, every loss sale L and every Buy B of L's ticker in the
\* input dated from 30 days before to 30 days after L's sale date have a
\* violation that references L and carries B's date.
WindowComplete ==
  IsDone =>
    \A l \in 1..Len(lossSales) : \A b \in 1..Len(input) :
      ( /\ IsBuyOf(input[b], lossSales[l].ticker)
        /\ input[b].date >= lossSales[l].saleDate - 30
        /\ input[b].date <= lossSales[l].saleDate + 30 )
      => ViolationsOf(l, input[b].date) # {}

----------------------------------------------------------------------------
(* C2: the ends of the window *)

\* C2: a Buy of the loss sale's ticker dated 30 days before or after the
\* sale has a violation against that loss sale, one dated 31 days before or
\* after has none, and isInWashWindow(D, d) is exactly D-30 <= d <= D+30.
WindowBoundary ==
  /\ \A D \in WindowDates : \A d \in (D - 32)..(D + 32) :
       isInWashWindow(D, d) <=> (D - 30 <= d /\ d <= D + 30)
  /\ IsDone =>
       \A l \in 1..Len(lossSales) : \A b \in 1..Len(input) :
         IsBuyOf(input[b], lossSales[l].ticker) =>
           LET D == lossSales[l].saleDate
               d == input[b].date
           IN  /\ (d = D - 30 \/ d = D + 30) => ViolationsOf(l, d) # {}
               /\ (d = D - 31 \/ d = D + 31) => ViolationsOf(l, d) = {}

----------------------------------------------------------------------------
(* C3: FIFO cost basis *)

FifoStep ==
  IsMatchedSell =>
    LET tl == lots[Txn.ticker]
        Q  == Txn.quantity
    IN  /\ cur'.quantitySold = FifoMatched(tl, Q)
        /\ cur'.totalCostBasis = FifoCostBasis(tl, Q)
        /\ lots'[Txn.ticker] = FifoLeft(tl, Q)
        /\ \A t \in Tickers \ {Txn.ticker} : lots'[t] = lots[t]
        /\ ( /\ Len(tl) = 2 /\ Q = 15
             /\ tl[1].remaining = 10 /\ tl[1].price = 5
             /\ tl[2].remaining = 10 /\ tl[2].price = 7 )
           => /\ cur'.totalCostBasis = 85
              /\ lots'[Txn.ticker] = <<[tl[2] EXCEPT !.remaining = 5]>>

\* C3: a Sell of Q shares takes from the ticker's lots in queue order, from
\* each the lesser of what it holds and what is still needed; its cost basis
\* is the sum of (taken from lot i) x (price of lot i); lots 10 @ 5, 10 @ 7
\* and a sell of 15 give 85 and leave the one lot 5 @ 7.
FifoCostBasisHolds == [][FifoStep]_vars

FifoExampleReached ==
  /\ cur.branch \in {"loss", "gain"}
  /\ cur.quantitySold = 15
  /\ cur.totalCostBasis = 85
  /\ Len(lots["AAA"]) = 1
  /\ lots["AAA"][1].remaining = 5
  /\ lots["AAA"][1].quantity = 10
  /\ lots["AAA"][1].price = 7

----------------------------------------------------------------------------
(* C4: chronological order *)

Occurrences(s, x) == Cardinality({j \in 1..Len(s) : s[j] = x})

IsPermutation(s, t) ==
  /\ Len(s) = Len(t)
  /\ \A i \in 1..Len(s) : Occurrences(s, s[i]) = Occurrences(t, s[i])

InOrder(s) ==
  \A i, j \in 1..Len(s) :
    i < j => /\ s[i].date <= s[j].date
             /\ s[i].date = s[j].date
                  => ~(s[i].transType = "Sell" /\ s[j].transType = "Buy")

\* C4: whatever the order of the input rows, the loop runs over the input's
\* transactions by non-decreasing date and, within one date, over every Buy
\* before every Sell, one transaction after the other.
ChronologicalOrder ==
  /\ pc # "sort" => InOrder(transactions) /\ IsPermutation(transactions, input)
  /\ cur.idx = idx - 1
  /\ idx <= Len(transactions) + 1

OutOfOrderInputProcessed ==
  /\ IsDone
  /\ Len(input) = 3
  /\ input[1].date > input[2].date
  /\ input[2].date = input[3].date
  /\ input[2].transType = "Sell"
  /\ input[3].transType = "Buy"

----------------------------------------------------------------------------
(* C5: a Buy and a Sell on one day *)

SameDayBuys ==
  {i \in 1..Len(transactions) :
     IsBuyOf(transactions[i], Txn.ticker) /\ transactions[i].date = Txn.date}

\* The Sell in turn is the first of its ticker on its date, a Buy of the
\* ticker carries the same date, and no lot from an earlier date is open.
FirstSameDaySell ==
  /\ InLoop
  /\ Txn.transType = "Sell"
  /\ SameDayBuys # {}
  /\ \A i \in 1..Len(transactions) :
       ( /\ transactions[i].transType = "Sell"
         /\ transactions[i].ticker = Txn.ticker
         /\ transactions[i].date = Txn.date ) => i >= idx
  /\ \A k \in 1..Len(lots[Txn.ticker]) : lots[Txn.ticker][k].date >= Txn.date

SameDayStep ==
  FirstSameDaySell =>
    /\ lots[Txn.ticker] # <<>>
    /\ \A k \in 1..Len(lots[Txn.ticker]) : lots[Txn.ticker][k].date = Txn.date
    /\ Len(lots[Txn.ticker]) = Cardinality(SameDayBuys)
    /\ cur'.branch \in {"loss", "gain"}
    /\ cur'.quantitySold =
         Min(Txn.quantity,
             SumSeq([k \in 1..Len(lots[Txn.ticker]) |->
                       lots[Txn.ticker][k].quantity]))
    /\ warnings' = warnings

----------------------------------------------------------------------------
(* C6: a Sell with no lots *)

NoLotStep ==
  IsSkippedSell =>
    /\ warnings' = Append(warnings, [ticker |-> Txn.ticker, date |-> Txn.date])
    /\ lossSales' = lossSales
    /\ violations' = violations

\* C6: a Sell that finds its ticker's queue empty adds exactly one warning,
\* naming that ticker and that date, and no loss sale and no violation.
NoLotSkip == [][NoLotStep]_vars

----------------------------------------------------------------------------
(* C7: when a loss sale is created *)

LossSaleStep ==
  InLoop =>
    IF IsMatchedSell
    THEN LET tl       == lots[Txn.ticker]
             matched  == FifoMatched(tl, Txn.quantity)
             cost     == FifoCostBasis(tl, Txn.quantity)
             proceeds == Rat(Txn.amount * matched, Txn.quantity)
         IN  IF RatLt(RatSub(proceeds, IntRat(cost)), IntRat(0))
             THEN /\ Len(lossSales') = Len(lossSales) + 1
                  /\ SubSeq(lossSales', 1, Len(lossSales)) = lossSales
                  /\ LET ls == lossSales'[Len(lossSales')]
                     IN  /\ ls.ticker = Txn.ticker
                         /\ ls.saleDate = Txn.date
                         /\ ls.quantity = matched
                         /\ ls.costBasis = cost
                         /\ RatEq(ls.proceeds, proceeds)
                         /\ RatEq(ls.lossAmount, RatSub(IntRat(cost), proceeds))
                         /\ RatLt(IntRat(0), ls.lossAmount)
             ELSE lossSales' = lossSales
    ELSE lossSales' = lossSales

\* C7: a Sell that matched a lot creates a loss sale if and only if its
\* proceeds are below its matched cost basis; the loss sale has lossAmount =
\* costBasis - proceeds > 0 and quantity = the matched quantity; every other
\* step creates none, and no Sell creates two.
LossSaleCreation == [][LossSaleStep]_vars

\* A sell with no gain and no loss has created none, the next sell one.
LossAfterZeroGain ==
  /\ cur.branch = "loss"
  /\ cur.idx = 3
  /\ transactions[1].transType = "Buy"
  /\ transactions[1].price = 7
  /\ transactions[2].transType = "Sell"
  /\ transactions[2].quantity = 5
  /\ transactions[2].amount = 35
  /\ Len(lossSales) = 1
  /\ warnings = <<>>

----------------------------------------------------------------------------
(* C8: partial fill *)

PartialFillStep ==
  IsMatchedSell =>
    LET tl    == lots[Txn.ticker]
        Q     == Txn.quantity
        total == TotalRemaining(tl)
    IN  /\ warnings' = warnings
        /\ IF total < Q
           THEN /\ cur'.quantitySold = total
                /\ lots'[Txn.ticker] = <<>>
                /\ RatEq(cur'.proceeds, Rat(Txn.amount * total, Q))
                /\ Len(lossSales') > Len(lossSales)
                     => lossSales'[Len(lossSales')].quantity = total
           ELSE /\ cur'.quantitySold = Q
                /\ RatEq(cur'.proceeds, IntRat(Txn.amount))
                /\ Len(lossSales') > Len(lossSales)
                     => lossSales'[Len(lossSales')].quantity = Q

\* C8: a Sell of Q shares that finds lots holding fewer than Q matches all
\* they hold, empties the queue, takes amount x matched / Q as proceeds,
\* records the matched quantity in its loss sale and adds no warning; when
\* the lots suffice it matches Q and takes the whole amount.
PartialFill == [][PartialFillStep]_vars

PartialFillAtALoss ==
  /\ cur.branch = "loss"
  /\ cur.quantitySold = 10
  /\ transactions[cur.idx].quantity = 15
  /\ lots[transactions[cur.idx].ticker] = <<>>
  /\ lossSales[Len(lossSales)].quantity = 10
  /\ cur.proceeds.n % cur.proceeds.d # 0
  /\ warnings = <<>>

----------------------------------------------------------------------------
(* C9: the disallowed loss *)

\* C9: every violation, of the forward and of the backward pass, carries
\* min(buyQuantity, L.quantity) / L.quantity x L.lossAmount for the loss
\* sale L it references, whatever other violations reference L.
DisallowedLossFormula ==
  \A k \in 1..Len(violations) :
    LET v == violations[k]
        L == lossSales[v.lossSale]
    IN  /\ v.lossSale \in 1..Len(lossSales)
        /\ RatEq(v.disallowedLoss,
                 Rat(Min(v.buyQuantity, L.quantity) * L.lossAmount.n,
                     L.quantity * L.lossAmount.d))

ForwardAndBackwardViolations ==
  /\ IsDone
  /\ \E j, k \in 1..Len(violations) :
       /\ violations[j].lossSale = violations[k].lossSale
       /\ violations[j].buyDate < lossSales[violations[j].lossSale].saleDate
       /\ violations[k].buyDate > lossSales[violations[k].lossSale].saleDate
       /\ violations[k].buyQuantity < lossSales[violations[k].lossSale].quantity
       /\ violations[j].buyQuantity >= lossSales[violations[j].lossSale].quantity

----------------------------------------------------------------------------
(* C10: one violation for a buy before the sale *)

\* C10: for a loss sale L with a Buy B of its ticker before it inside the
\* window and no Buy of its ticker after it, the report holds exactly one
\* violation for the pair (L, B).
OneViolationPerPriorBuy ==
  IsDone =>
    \A l \in 1..Len(lossSales) : \A b \in 1..Len(input) :
      ( /\ IsBuyOf(input[b], lossSales[l].ticker)
        /\ input[b].date < lossSales[l].saleDate
        /\ input[b].date >= lossSales[l].saleDate - 30
        /\ \A a \in 1..Len(input) :
             IsBuyOf(input[a], lossSales[l].ticker)
               => input[a].date <= lossSales[l].saleDate )
      => Cardinality(ViolationsOf(l, input[b].date)) = 1

----------------------------------------------------------------------------
(* C11: expiry of the active window *)

InList(list, i) == \E k \in 1..Len(list) : list[k] = i

\* The list holds the loss sales whose sale date is at most 30 days before
\* the day of the reference date, and no other.
HoldsTheActive(list, asOf) ==
  \A i \in 1..Len(lossSales) :
    InList(list, i) <=> DayOf(asOf) <= lossSales[i].saleDate + 30

ExpiryStep ==
  pc' = "done" =>
    /\ pc = "loop" => HoldsTheActive(activeWindows', asOfDate')
    /\ HoldsTheActive(memoActiveWindows', asOfDate')

\* C11: a loss sale of day D is in the active window list exactly while the
\* reference date lies on or before day D + 30: in the list the engine
\* builds for its reference date, and in the list the page holds under the
\* reference date on display, after every change of that date.
ActiveWindowExpiry == [][ExpiryStep]_vars

\* On the last day of its window a loss sale is in the list of the page that
\* was not in the list the engine built under the date of the load.
ActiveAgainOnLastDay ==
  /\ pc = "done"
  /\ \E i \in 1..Len(lossSales) :
       /\ DayOf(asOfDate) = lossSales[i].saleDate + 30
       /\ InList(memoActiveWindows, i)
       /\ ~InList(activeWindows, i)

----------------------------------------------------------------------------
(* C12: the result of a ticker check *)

\* A step of checkTicker that puts a new result on display.
IsCheckStep == pc = "done" /\ result' # noResult /\ result' # result

\* The loss sales of ticker q that are active under the reference date.
ActiveOf(q) ==
  {i \in 1..Len(lossSales) :
     lossSales[i].ticker = q /\ DayOf(asOfDate) <= lossSales[i].saleDate + 30}

\* The time from the reference date to the local midnight of a day, in minutes.
MinutesUntil(date) == toUTC(Midnight(date)) - toUTC(asOfDate)

CheckResultStep ==
  IsCheckStep =>
    LET r == result'
        M == ActiveOf(r.ticker)
    IN  /\ r.safe <=> M = {}
        /\ ~r.safe =>
             /\ {r.windows[k] : k \in 1..Len(r.windows)} = M
             /\ Len(r.windows) = Cardinality(M)
             /\ \E i \in M : r.safeDate = lossSales[i].saleDate + 31
             /\ \A i \in M : r.safeDate >= lossSales[i].saleDate + 31
             /\ r.daysUntilSafe * (24 * 60) >= MinutesUntil(r.safeDate)
             /\ (r.daysUntilSafe - 1) * (24 * 60) < MinutesUntil(r.safeDate)
             /\ r.daysUntilSafe >= 1
             /\ DayOf(asOfDate) = r.safeDate - 1 => r.daysUntilSafe = 1

\* C12: a ticker check reports safe when no active window is of the ticker;
\* otherwise it reports unsafe with every active window of the ticker, with
\* the latest of their sale dates plus 31 days as the safe date, and with the
\* time from the reference date to the safe date in days, rounded up: at
\* least 1, and 1 on day D + 30 of the latest such sale D.
CheckResult == [][CheckResultStep]_vars

----------------------------------------------------------------------------
(* C13: the ticker check ignores letter case *)

\* Two strings that differ in letter case at most.
SameButCase(a, b) == toUpperCase(a) = toUpperCase(b)

CaseStep ==
  IsCheckStep =>
    \A i \in 1..Len(lossSales) :
      DayOf(asOfDate) <= lossSales[i].saleDate + 30 =>
        IF SameButCase(lossSales[i].ticker, trim(ticker))
        THEN ~result'.safe /\ InList(result'.windows, i)
        ELSE result'.safe \/ ~InList(result'.windows, i)

\* C13: a ticker check reports unsafe, with its window, for every active
\* loss sale whose ticker, as the input file gave it, is the query up to
\* letter case, and reports no window of an active loss sale whose ticker
\* differs from the query in another way.
CaseInsensitiveCheck == [][CaseStep]_vars

----------------------------------------------------------------------------
(* C14: a skipped sell leaves the run as it was *)

RemoveAt(s, p) == SubSeq(s, 1, p - 1) \o SubSeq(s, p + 1, Len(s))

\* Entry p of the sorted array is a Sell that met an empty queue.
SkippedAt(p) ==
  /\ transactions[p].transType = "Sell"
  /\ processFirst(transactions, p - 1).lots[transactions[p].ticker] = <<>>

\* The report is that of the loop run over every entry, and for every
\* skipped Sell the rows without it give the same loss sales and violations.
SameWithoutSkipped ==
  LET whole == processFirst(transactions, Len(transactions))
  IN  /\ lossSales = whole.lossSales
      /\ violations = whole.violations
      /\ warnings = whole.warnings
      /\ \A p \in 1..Len(transactions) :
           SkippedAt(p) =>
             LET without == processTransactions(RemoveAt(transactions, p))
             IN  /\ without.lossSales = lossSales
                 /\ without.violations = violations
                 /\ Len(without.warnings) = Len(warnings) - 1

SkippedSellStep ==
  IsSkippedSell =>
    /\ lots' = lots
    /\ lossSales' = lossSales
    /\ violations' = violations
    /\ Len(warnings') = Len(warnings) + 1
    /\ transactions' = transactions
    /\ idx' = idx + 1
    /\ pc' = "loop"

\* C14: a Sell that finds no open lot changes the warnings only: the lots of
\* every ticker, the loss sales and the violations stay as they were, and the
\* loop goes on with the next transaction, so that the report has the loss
\* sales and the violations of the same input without that Sell.
SkippedSellFrame ==
  /\ [][SkippedSellStep]_vars
  /\ [](IsDone => SameWithoutSkipped)

\* A report with a skipped Sell and, from a Sell after it, a loss sale with a
\* violation.
LossSaleAfterSkippedSell ==
  /\ IsDone
  /\ \E p \in 1..Len(transactions) : \E k \in 1..Len(violations) :
       /\ SkippedAt(p)
       /\ \E q \in (p + 1)..Len(transactions) :
            /\ transactions[q].transType = "Sell"
            /\ transactions[q].ticker = violations[k].ticker
            /\ transactions[q].date = lossSales[violations[k].lossSale].saleDate

----------------------------------------------------------------------------
(* C15: no stale ticker check result *)

\* C15: whatever files were loaded, dates set and tickers checked, the
\* result on display is what checkTicker gives for its ticker on the report
\* and the reference date on display; no result from under an earlier
\* reference date stays on display.
NoStaleResult ==
  (pc = "done" /\ result # noResult) => result = checkResult(result.ticker)

----------------------------------------------------------------------------
(* C16: no two violations with one key *)

SameKey(v, w) ==
  /\ v.ticker = w.ticker
  /\ lossSales[v.lossSale].saleDate = lossSales[w.lossSale].saleDate
  /\ v.buyDate = w.buyDate

\* C16: at every step of the run and in the report, no two violations have
\* the same ticker, the same sale date of their loss sale and the same buy
\* date, whichever pass added them.
UniqueViolationKeys ==
  \A j, k \in 1..Len(violations) :
    j # k => ~SameKey(violations[j], violations[k])

----------------------------------------------------------------------------
(* C17: as many violations as buys in the window *)

\* The Buys of the input inside the window of loss sale l.
BuysInWindowOf(l) ==
  {b \in 1..Len(input) :
     /\ IsBuyOf(input[b], lossSales[l].ticker)
     /\ input[b].date >= lossSales[l].saleDate - 30
     /\ input[b].date <= lossSales[l].saleDate + 30}

ReferencesTo(l) == {k \in 1..Len(violations) : violations[k].lossSale = l}

\* C17: in the report, every loss sale is referenced by as many violations
\* as the input has Buys of its ticker within 30 days of its sale date, also
\* when several of these Buys carry one date and when another loss sale of
\* the ticker carries the same sale date.
ViolationPerCorrelatedBuy ==
  IsDone =>
    \A l \in 1..Len(lossSales) :
      Cardinality(ReferencesTo(l)) = Cardinality(BuysInWindowOf(l))

----------------------------------------------------------------------------
(* C18: the remaining shares of a lot *)

LotBounds ==
  \A t \in Tickers : \A k \in 1..Len(lots[t]) :
    0 <= lots[t][k].remaining /\ lots[t][k].remaining <= lots[t][k].quantity

\* The queue after is the queue before without some of its first lots, and
\* no lot of it holds more than it held.
KeptAndNotGrown(before, after) ==
  LET gone == Len(before) - Len(after)
  IN  /\ gone >= 0
      /\ \A k \in 1..Len(after) :
           /\ after[k].date = before[k + gone].date
           /\ after[k].quantity = before[k + gone].quantity
           /\ after[k].price = before[k + gone].price
           /\ after[k].remaining <= before[k + gone].remaining

LotStep ==
  IF InLoop /\ Txn.transType = "Buy"
  THEN /\ Len(lots'[Txn.ticker]) = Len(lots[Txn.ticker]) + 1
       /\ SubSeq(lots'[Txn.ticker], 1, Len(lots[Txn.ticker])) = lots[Txn.ticker]
       /\ LET lot == lots'[Txn.ticker][Len(lots'[Txn.ticker])]
          IN  lot.quantity = Txn.quantity /\ lot.remaining = lot.quantity
       /\ \A t \in Tickers \ {Txn.ticker} : lots'[t] = lots[t]
  ELSE IF InLoop /\ Txn.transType = "Sell"
  THEN /\ KeptAndNotGrown(lots[Txn.ticker], lots'[Txn.ticker])
       /\ \A t \in Tickers \ {Txn.ticker} : lots'[t] = lots[t]
  ELSE lots' = lots

\* C18: every queued lot has 0 <= remaining <= quantity at every step; a lot
\* enters its queue with remaining = quantity, and its remaining changes only
\* when a Sell of its ticker is matched, and then never upwards.
LotInvariant == []LotBounds /\ [][LotStep]_vars

\* A Sell has taken a part of a lot and left the rest in the queue.
LotPartlySold ==
  /\ cur.branch \in {"gain", "loss"}
  /\ \E t \in Tickers : \E k \in 1..Len(lots[t]) :
       0 < lots[t][k].remaining /\ lots[t][k].remaining < lots[t][k].quantity

----------------------------------------------------------------------------
(* C19: the life of a lot *)

AboveEpsilon(lot) == lot.remaining * 10000 > 1

\* What a sell of Q shares leaves of the queue tl: every lot less what the
\* sell takes from it, in queue order, without the lots left at or below
\* epsilon.
LeftInOrder(tl, Q) ==
  SelectSeq([i \in 1..Len(tl) |->
               [tl[i] EXCEPT !.remaining = @ - FifoTake(tl, Q, i)]],
            AboveEpsilon)

LifecycleStep ==
  /\ IsMatchedSell =>
       /\ \A k \in 1..Len(lots'[Txn.ticker]) : AboveEpsilon(lots'[Txn.ticker][k])
       /\ lots'[Txn.ticker] = LeftInOrder(lots[Txn.ticker], Txn.quantity)
       /\ cur'.totalCostBasis = FifoCostBasis(lots[Txn.ticker], Txn.quantity)
  /\ \A t \in Tickers :
       lots'[t] # lots[t] =>
         /\ InLoop
         /\ Txn.ticker = t
         /\ Txn.transType = "Buy" => lots'[t] = Append(lots[t], newLot(Txn))
         /\ Txn.transType = "Sell" => Len(lots'[t]) <= Len(lots[t])

\* C19: after each matched Sell the queue of its ticker holds no lot with
\* remaining at or below epsilon: such lots are removed, the others stay in
\* their order. A queue gains a lot only by a Buy, which appends its own new
\* lot, so a removed lot is never back in a queue, and the cost basis of a
\* Sell comes from the lots in the queue only.
LotLifecycle == [][LifecycleStep]_vars

\* A Sell has used up the first of three lots; the two others, of one share
\* and of two, are left in their order.
FirstLotRemoved ==
  /\ cur.branch = "loss"
  /\ cur.quantitySold = 2
  /\ Len(lots["AAA"]) = 2
  /\ lots["AAA"][1].quantity = 1 /\ lots["AAA"][1].remaining = 1
  /\ lots["AAA"][2].quantity = 2 /\ lots["AAA"][2].remaining = 2
  /\ \A i \in 1..3 : transactions[i].transType = "Buy" /\ transactions[i].date = 0

----------------------------------------------------------------------------
(* C20: share conservation *)

\* The shares of ticker t bought by the transactions processed so far.
BoughtSoFar(t) ==
  SumSeq([p \in 1..(idx - 1) |->
            IF IsBuyOf(transactions[p], t) THEN transactions[p].quantity ELSE 0])

\* The shares entry p of the sorted array matched, if it is a Sell: what the
\* matching takes from the queue the entries before it leave.
MatchedAt(p) ==
  IF transactions[p].transType = "Sell"
  THEN matchSell(processFirst(transactions, p - 1).lots[transactions[p].ticker],
                 transactions[p]).quantitySold
  ELSE 0

MatchedSoFar(t) ==
  SumSeq([p \in 1..(idx - 1) |->
            IF transactions[p].ticker = t THEN MatchedAt(p) ELSE 0])

\* C20: after every processed transaction and for every ticker, the lots in
\* the queue hold what was bought so far less what the Sells so far matched
\* (quantities in whole shares); the Sells never match more than was bought,
\* and no Sell more than its own quantity.
ShareConservation ==
  pc \in {"loop", "done"} =>
    /\ \A t \in Tickers :
         /\ TotalRemaining(lots[t]) = BoughtSoFar(t) - MatchedSoFar(t)
         /\ MatchedSoFar(t) <= BoughtSoFar(t)
    /\ \A p \in 1..(idx - 1) : MatchedAt(p) <= transactions[p].quantity
    /\ cur.branch \in {"gain", "loss"} => cur.quantitySold = MatchedAt(cur.idx)

\* Every share bought was matched, the last of them by a Sell of more shares
\* than the queue held.
AllSoldBySellInPart ==
  /\ IsDone
  /\ BoughtSoFar("AAA") = 10
  /\ MatchedSoFar("AAA") = 10
  /\ \E p \in 1..Len(transactions) :
       0 < MatchedAt(p) /\ MatchedAt(p) < transactions[p].quantity

----------------------------------------------------------------------------
(* C21: every violation is sound *)

====
